---- MODULE Spec2Model ----
(***************************************************************************)
(* Hostel room allocation (src/room_allocation_system.py).                 *)
(*                                                                         *)
(* Strings of the program are modelled as sequences of one-character       *)
(* strings, so that formatting (room_id, the "_roommate" suffix, 03d) and  *)
(* parsing (split('-'), slicing, int()) are computed as the code does.     *)
(* A Python dict is modelled as the sequence of its (key, value) pairs in  *)
(* insertion order.  The timestamp of an allocation event is a clock read  *)
(* that no operation ever looks at again; it is left out of the event.     *)
(***************************************************************************)
EXTENDS Integers, Sequences, FiniteSets, TLC

(***************************************************************************)
(* Bounds of the model.                                                    *)
(***************************************************************************)
\* the number of operations called on the system, one after the other, that
\* the model follows; within it any operation may follow any other
MaxSteps == 3

(***************************************************************************)
(* Strings.                                                                *)
(***************************************************************************)
DigitChar == <<"0", "1", "2", "3", "4", "5", "6", "7", "8", "9">>

DigitVal(c) ==
    CASE c = "0" -> 0 [] c = "1" -> 1 [] c = "2" -> 2 [] c = "3" -> 3
      [] c = "4" -> 4 [] c = "5" -> 5 [] c = "6" -> 6 [] c = "7" -> 7
      [] c = "8" -> 8 [] c = "9" -> 9

\* f"{i:03d}" for 0 <= i < 1000; also the three-digit literals of the layout
Str3(i) == << DigitChar[((i \div 100) % 10) + 1],
              DigitChar[((i \div 10) % 10) + 1],
              DigitChar[(i % 10) + 1] >>

\* int(s) for a string of decimal digits
RECURSIVE ParseInt(_)
ParseInt(s) ==
    IF Len(s) = 0 THEN 0
    ELSE ParseInt(SubSeq(s, 1, Len(s) - 1)) * 10 + DigitVal(s[Len(s)])

\* s < t on strings of decimal digits (Python compares code points; the
\* code points of the digits are in the order of their values)
RECURSIVE StrLess(_, _)
StrLess(s, t) ==
    IF Len(t) = 0 THEN FALSE
    ELSE IF Len(s) = 0 THEN TRUE
    ELSE IF s[1] # t[1] THEN DigitVal(s[1]) < DigitVal(t[1])
    ELSE StrLess(Tail(s), Tail(t))

\* f"{x}_roommate"
RoommateOf(x) == x \o <<"_", "r", "o", "o", "m", "m", "a", "t", "e">>

\* s.split('-'): the pieces of s between the '-' characters
RECURSIVE SplitDash(_)
SplitDash(s) ==
    IF \A i \in 1..Len(s) : s[i] # "-" THEN << s >>
    ELSE LET i == CHOOSE k \in 1..Len(s) :
                     s[k] = "-" /\ \A j \in 1..(k - 1) : s[j] # "-"
         IN  << SubSeq(s, 1, i - 1) >> \o SplitDash(SubSeq(s, i + 1, Len(s)))

\* s[:n]
Prefix(s, n) == SubSeq(s, 1, IF Len(s) < n THEN Len(s) ELSE n)

(***************************************************************************)
(* Dicts as sequences of <<key, value>> pairs in insertion order.          *)
(***************************************************************************)
DictKeys(d) == { d[i][1] : i \in 1..Len(d) }

\* d[k] = v: an existing key keeps its position, a new key goes last
DictSet(d, k, v) ==
    IF k \in DictKeys(d)
    THEN [ i \in 1..Len(d) |-> IF d[i][1] = k THEN <<k, v>> ELSE d[i] ]
    ELSE Append(d, <<k, v>>)

(***************************************************************************)
(* Room.                                                                   *)
(***************************************************************************)
Capacity == 2

Room(b, f, n) ==
    [ building |-> b, floor |-> f, number |-> n,
      capacity |-> Capacity, occupied_by |-> << >> ]

\* a room_id without the separator
room_id_NoDash(room) == << room.building, room.floor >> \o room.number

room_id(room) == << room.building, room.floor, "-" >> \o room.number

is_available(room) == Len(room.occupied_by) < room.capacity

available_slots(room) == room.capacity - Len(room.occupied_by)

(***************************************************************************)
(* Floor: the sequence of its rooms, floor.rooms.  A room of a floor is    *)
(* referred to by its index in that sequence.                              *)
(***************************************************************************)
available_rooms(rooms) ==
    SelectSeq([ i \in 1..Len(rooms) |-> i ], LAMBDA i : is_available(rooms[i]))

\* sum(room.available_slots for room in self.available_rooms): the number
\* of <<room, slot>> pairs with the slot free
total_available_slots(rooms) ==
    LET avail == available_rooms(rooms)
    IN  Cardinality({ p \in (1..Len(avail)) \X (1..Capacity) :
                        p[2] <= available_slots(rooms[avail[p[1]]]) })

\* a sort in descending order of the room.number strings
SortByNumber_Desc(rooms, idxs) ==
    LET key(p) == rooms[idxs[p]].number
        n == Len(idxs)
        rank(p) ==
            Cardinality({ q \in 1..n :
                \/ StrLess(key(p), key(q))
                \/ (q < p /\ key(q) = key(p)) }) + 1
    IN  [ r \in 1..n |-> idxs[CHOOSE p \in 1..n : rank(p) = r] ]

\* sorted(idxs, key=number): the stable ascending order of the room.number
\* strings; an element's place is the number of elements that go before it
SortByNumber(rooms, idxs) ==
    LET key(p) == rooms[idxs[p]].number
        n == Len(idxs)
    IN  IF \A p \in 1..(n - 1) : ~StrLess(key(p + 1), key(p))
        THEN idxs
        ELSE LET rank(p) ==
                     Cardinality({ q \in 1..n :
                         \/ StrLess(key(q), key(p))
                         \/ (q < p /\ key(q) = key(p)) }) + 1
             IN  [ r \in 1..n |-> idxs[CHOOSE p \in 1..n : rank(p) = r] ]

\* the groups get_continuous_available_rooms builds: a group starts at the
\* first sorted room and at every room whose number is not one more than
\* the number of the room before it
get_continuous_available_rooms(rooms) ==
    IF available_rooms(rooms) = << >> THEN << >>
    ELSE LET sorted_rooms == SortByNumber(rooms, available_rooms(rooms))
             n == Len(sorted_rooms)
             starts ==
                 SelectSeq([ i \in 1..n |-> i ],
                     LAMBDA i : \/ i = 1
                                \/ ParseInt(rooms[sorted_rooms[i]].number)
                                   - ParseInt(rooms[sorted_rooms[i - 1]].number)
                                   # 1)
         IN  [ g \in 1..Len(starts) |->
                 SubSeq(sorted_rooms, starts[g],
                        IF g = Len(starts) THEN n ELSE starts[g + 1] - 1) ]

(***************************************************************************)
(* The fixed layout.                                                       *)
(***************************************************************************)
building_a_rooms ==
    << << <<"A", "0">>, << 1, 2, 3, 4, 5, 13, 14, 15, 16, 17,
                           22, 23, 24, 25, 26 >> >>,
       << <<"A", "1">>, << 101, 102, 103, 104, 105, 114, 115, 116, 117, 118,
                           122, 123, 124, 125, 126 >> >>,
       << <<"A", "2">>, << 201, 202, 203, 204, 205, 214, 215, 216, 217, 218,
                           221, 222, 223, 224, 225 >> >>,
       << <<"A", "3">>, << 301, 302, 303, 304, 305, 314, 315, 316, 317, 318,
                           319, 320, 321, 322, 323 >> >> >>

BFloorNums == << "1", "2" >>

BRoomCount == 24

\* self.buildings after _initialize_buildings: dict building -> dict floor
\* key -> floor.rooms
initialize_buildings ==
    << << "A",
          [ k \in 1..Len(building_a_rooms) |->
              LET floor == building_a_rooms[k][1]
                  nums  == building_a_rooms[k][2]
              IN  << floor,
                     [ j \in 1..Len(nums) |->
                         Room("A", floor[2], Str3(nums[j])) ] >> ] >>,
       << "B",
          [ k \in 1..Len(BFloorNums) |->
              << <<"B", BFloorNums[k]>>,
                 [ i \in 1..BRoomCount |->
                     Room("B", BFloorNums[k], Str3(i)) ] >> ] >> >>

\* A floor object is referred to by <<position of its building, position of
\* the floor in the building>>.
FloorRefs(bld) ==
    { <<bi, fi>> : bi \in 1..Len(bld), fi \in 1..6 } \cap
    { r \in (1..Len(bld)) \X (1..6) : r[2] <= Len(bld[r[1]][2]) }

RoomsOf(bld, ref) == bld[ref[1]][2][ref[2]][2]

WithRooms(bld, ref, rooms) ==
    [ bld EXCEPT ![ref[1]][2][ref[2]][2] = rooms ]

(***************************************************************************)
(* Allocation engine.                                                      *)
(***************************************************************************)
\* all <<floor, slots>> in dict order, buildings outer, floors inner
RECURSIVE FloorList(_, _, _)
FloorList(bld, bi, fi) ==
    IF bi > Len(bld) THEN << >>
    ELSE IF fi > Len(bld[bi][2]) THEN FloorList(bld, bi + 1, 1)
    ELSE << << <<bi, fi>>, total_available_slots(RoomsOf(bld, <<bi, fi>>)) >> >>
         \o FloorList(bld, bi, fi + 1)

\* list.sort(key=slots, reverse=True): stable, descending
RECURSIVE SortBySlotsDesc(_)
SortBySlotsDesc(l) ==
    IF Len(l) <= 1 THEN l
    ELSE LET front == SortBySlotsDesc(SubSeq(l, 1, Len(l) - 1))
             x     == l[Len(l)]
         IN  SelectSeq(front, LAMBDA y : y[2] >= x[2]) \o << x >>
             \o SelectSeq(front, LAMBDA y : y[2] < x[2])

\* a listing that leaves out the floors with a single room left
get_all_floors_with_availability_Strict(bld) ==
    SortBySlotsDesc(SelectSeq(FloorList(bld, 1, 1), LAMBDA e : e[2] > 2))

get_all_floors_with_availability(bld) ==
    SortBySlotsDesc(SelectSeq(FloorList(bld, 1, 1), LAMBDA e : e[2] > 0))

\* random.shuffle: every arrangement of the list
Count(s, x) == Cardinality({ i \in 1..Len(s) : s[i] = x })

Shuffles(s) ==
    LET elems == { s[i] : i \in 1..Len(s) }
    IN  { t \in [ 1..Len(s) -> elems ] :
            \A x \in elems : Count(t, x) = Count(s, x) }

RECURSIVE Flatten(_)
Flatten(groups) ==
    IF groups = << >> THEN << >> ELSE Head(groups) \o Flatten(Tail(groups))

\* allocation[students[j]] = room_id(...) for j = 1..k, in that order
RECURSIVE Record(_, _, _, _, _)
Record(allocation, students, ids, j, k) ==
    IF j > k THEN allocation
    ELSE Record(DictSet(allocation, students[j], ids[j]), students, ids,
                j + 1, k)

\* a walk that claims one slot only, for the representative
PlaceWalk_NoRoommate(rooms, order, students, allocation) ==
    LET empty == SelectSeq(order,
                     LAMBDA i : is_available(rooms[i])
                                /\ available_slots(rooms[i]) = 2)
        k == IF Len(empty) < Len(students) THEN Len(empty) ELSE Len(students)
        student(i) == students[CHOOSE j \in 1..k : empty[j] = i]
    IN  [ rooms |->
            [ i \in 1..Len(rooms) |->
                IF \E j \in 1..k : empty[j] = i
                THEN [ rooms[i] EXCEPT !.occupied_by = Append(@, student(i)) ]
                ELSE rooms[i] ],
          student_idx |-> k,
          allocation |->
            Record(allocation, students,
                   [ j \in 1..k |-> room_id(rooms[empty[j]]) ], 1, k) ]

\* a walk that appends to the first rooms of the floor, empty or not
PlaceWalk_FromFirst(rooms, order, students, allocation) ==
    LET k == IF Len(rooms) < Len(students) THEN Len(rooms) ELSE Len(students)
    IN  [ rooms |->
            [ i \in 1..Len(rooms) |->
                IF i <= k
                THEN [ rooms[i] EXCEPT !.occupied_by =
                         Append(Append(@, students[i]),
                                RoommateOf(students[i])) ]
                ELSE rooms[i] ],
          student_idx |-> k,
          allocation |->
            Record(allocation, students,
                   [ j \in 1..k |-> room_id(rooms[j]) ], 1, k) ]

\* a walk over the floor's rooms from the first one that assigns the
\* occupant list without looking at what the room holds
PlaceWalk_Overwrite(rooms, order, students, allocation) ==
    LET k == IF Len(rooms) < Len(students) THEN Len(rooms) ELSE Len(students)
    IN  [ rooms |->
            [ i \in 1..Len(rooms) |->
                IF i <= k
                THEN [ rooms[i] EXCEPT !.occupied_by =
                         << students[i], RoommateOf(students[i]) >> ]
                ELSE rooms[i] ],
          student_idx |-> k,
          allocation |->
            Record(allocation, students,
                   [ j \in 1..k |-> room_id(rooms[j]) ], 1, k) ]

\* for group in continuous_groups: for room in group: claim the room for
\* students[student_idx] when it is empty and a student is left.  `order`
\* is the rooms of the groups in walk order; its rooms are distinct, so the
\* j-th room that is empty at the start gets the j-th student.
PlaceWalk(rooms, order, students, allocation) ==
    LET empty == SelectSeq(order,
                     LAMBDA i : is_available(rooms[i])
                                /\ available_slots(rooms[i]) = 2)
        k == IF Len(empty) < Len(students) THEN Len(empty) ELSE Len(students)
        student(i) == students[CHOOSE j \in 1..k : empty[j] = i]
    IN  [ rooms |->
            [ i \in 1..Len(rooms) |->
                IF \E j \in 1..k : empty[j] = i
                THEN [ rooms[i] EXCEPT !.occupied_by =
                         Append(Append(@, student(i)), RoommateOf(student(i))) ]
                ELSE rooms[i] ],
          student_idx |-> k,
          allocation |->
            Record(allocation, students,
                   [ j \in 1..k |-> room_id(rooms[empty[j]]) ], 1, k) ]

PlaceOnFloor(bld, ref, students, allocation) ==
    LET rooms == RoomsOf(bld, ref)
        w == PlaceWalk(rooms, Flatten(get_continuous_available_rooms(rooms)),
                       students, allocation)
    IN  [ buildings |-> WithRooms(bld, ref, w.rooms),
          student_idx |-> w.student_idx, allocation |-> w.allocation ]

\* no filter: every floor that has a free slot is a candidate
single_floor_candidates_Any(floors, required_rooms) == floors

\* a filter that asks for one slot per room
single_floor_candidates_OneSlot(floors, required_rooms) ==
    SelectSeq(floors, LAMBDA e : e[2] >= required_rooms)

single_floor_candidates(floors, required_rooms) ==
    SelectSeq(floors, LAMBDA e : e[2] >= required_rooms * 2)

\* the possible results of _try_single_floor_allocation: the return value,
\* the buildings and the allocation dict it leaves, and the floor it chose
try_single_floor_allocation(bld, students, floors, allocation) ==
    LET required_rooms == Len(students)
        available_floors == single_floor_candidates(floors, required_rooms)
    IN  IF available_floors = << >>
        THEN { [ allocated |-> FALSE, buildings |-> bld,
                 allocation |-> allocation, selected |-> << >> ] }
        ELSE { LET p == PlaceOnFloor(bld, available_floors[c][1], students,
                                     allocation)
               IN  [ allocated |-> (p.student_idx = Len(students)),
                     buildings |-> p.buildings, allocation |-> p.allocation,
                     selected |-> << available_floors[c][1] >> ] :
               c \in 1..Len(available_floors) }

Min(a, b) == IF a < b THEN a ELSE b

\* a loop that takes one identifier per available slot of the floor
RECURSIVE multi_floor_loop_SlotsAsRooms(_, _, _, _)
multi_floor_loop_SlotsAsRooms(bld, remaining_students, allocation, iters) ==
    IF remaining_students = << >>
    THEN { [ raised |-> FALSE, buildings |-> bld, allocation |-> allocation,
             iters |-> iters, remaining |-> remaining_students ] }
    ELSE LET floors_with_availability == get_all_floors_with_availability(bld)
         IN  IF floors_with_availability = << >>
             THEN { [ raised |-> TRUE, buildings |-> bld,
                      allocation |-> allocation, iters |-> iters,
                      remaining |-> remaining_students ] }
             ELSE UNION {
                 LET selected_floor == floors_with_availability[c][1]
                     slots == floors_with_availability[c][2]
                     rooms_to_place == Min(Len(remaining_students), slots)
                     floor_students ==
                         SubSeq(remaining_students, 1, rooms_to_place)
                     p == PlaceOnFloor(bld, selected_floor, floor_students,
                                       allocation)
                 IN  multi_floor_loop_SlotsAsRooms(
                        p.buildings,
                        SubSeq(remaining_students, rooms_to_place + 1,
                               Len(remaining_students)),
                        p.allocation,
                        Append(iters,
                               [ floor |-> selected_floor, slots |-> slots,
                                 students |-> floor_students,
                                 placed |-> p.student_idx ])) :
                 c \in 1..Len(floors_with_availability) }

\* the possible results of the while loop of _multi_floor_allocation:
\* raised tells whether it ended in the ValueError of line 209; iters lists,
\* per iteration, the floor chosen, its slots, the students taken and the
\* number of them placed
RECURSIVE multi_floor_loop(_, _, _, _)
multi_floor_loop(bld, remaining_students, allocation, iters) ==
    IF remaining_students = << >>
    THEN { [ raised |-> FALSE, buildings |-> bld, allocation |-> allocation,
             iters |-> iters, remaining |-> remaining_students ] }
    ELSE LET floors_with_availability == get_all_floors_with_availability(bld)
         IN  IF floors_with_availability = << >>
             THEN { [ raised |-> TRUE, buildings |-> bld,
                      allocation |-> allocation, iters |-> iters,
                      remaining |-> remaining_students ] }
             ELSE UNION {
                 LET selected_floor == floors_with_availability[c][1]
                     slots == floors_with_availability[c][2]
                     rooms_avail == slots \div 2
                     rooms_to_place == Min(Len(remaining_students), rooms_avail)
                     floor_students ==
                         SubSeq(remaining_students, 1, rooms_to_place)
                     p == PlaceOnFloor(bld, selected_floor, floor_students,
                                       allocation)
                 IN  multi_floor_loop(
                        p.buildings,
                        SubSeq(remaining_students, rooms_to_place + 1,
                               Len(remaining_students)),
                        p.allocation,
                        Append(iters,
                               [ floor |-> selected_floor, slots |-> slots,
                                 students |-> floor_students,
                                 placed |-> p.student_idx ])) :
                 c \in 1..Len(floors_with_availability) }

\* a fallback that raises before it places anything when the hostel has
\* fewer empty rooms than identifiers
multi_floor_allocation_CheckFirst(bld, students, floors, allocation) ==
    LET listed == get_all_floors_with_availability(bld)
        rooms_left ==
            Cardinality(UNION {
                { << k, i >> : i \in { j \in 1..Len(RoomsOf(bld, listed[k][1])) :
                      is_available(RoomsOf(bld, listed[k][1])[j]) } } :
                k \in 1..Len(listed) })
    IN  IF rooms_left < Len(students)
        THEN { [ raised |-> TRUE, buildings |-> bld,
                 allocation |-> allocation, iters |-> << >>,
                 remaining |-> students ] }
        ELSE multi_floor_loop(bld, students, allocation, << >>)

\* a fallback that undoes its placements when it raises
multi_floor_allocation_Rollback(bld, students, floors, allocation) ==
    { IF m.raised THEN [ m EXCEPT !.buildings = bld ] ELSE m :
      m \in multi_floor_loop(bld, students, allocation, << >>) }

multi_floor_allocation(bld, students, floors, allocation) ==
    multi_floor_loop(bld, students, allocation, << >>)

MaxGroup == 15

\* a failure that leaves an event with an empty mapping in the ledger
Failure_Logged(bld, history, error) ==
    [ error |-> error, buildings |-> bld,
      history |-> Append(history, [ group_size |-> 0, allocation |-> << >> ]),
      returned |-> << >>, path |-> "none", selected |-> << >>,
      iters |-> << >>, shuffled |-> << >> ]

\* the possible results of allocate_rooms(group_size, roll_numbers) on the
\* state (bld, history): the error raised ("ok" when it returns), the state
\* it leaves, the dict it returns, and the path it took
Failure(bld, history, error) ==
    [ error |-> error, buildings |-> bld, history |-> history,
      returned |-> << >>, path |-> "none", selected |-> << >>,
      iters |-> << >>, shuffled |-> << >> ]

\* the size check alone
request_rejected_NoCap(group_size, roll_numbers) ==
    Len(roll_numbers) # group_size

\* a ledger that keeps the last event only
record_allocation_Replace(history, group_size, allocation) ==
    << [ group_size |-> group_size, allocation |-> allocation ] >>

\* the two checks that open allocate_rooms; each raises ValueError
request_rejected(group_size, roll_numbers) ==
    \/ Len(roll_numbers) # group_size
    \/ group_size > MaxGroup

\* self.allocation_history.append({... group_size, allocation.copy()})
record_allocation(history, group_size, allocation) ==
    Append(history, [ group_size |-> group_size, allocation |-> allocation ])

allocate_rooms(bld, history, group_size, roll_numbers) ==
    IF request_rejected(group_size, roll_numbers)
    THEN { Failure(bld, history, "InvalidRequest") }
    ELSE LET floors_with_availability == get_all_floors_with_availability(bld)
         IN  IF floors_with_availability = << >>
             THEN { Failure(bld, history, "NoRooms") }
             ELSE UNION { UNION {
                 IF s.allocated
                 THEN { [ error |-> "ok", buildings |-> s.buildings,
                          history |-> record_allocation(history,
                              group_size, s.allocation),
                          returned |-> s.allocation, path |-> "single",
                          selected |-> s.selected, iters |-> << >>,
                          shuffled |-> remaining_students ] }
                 ELSE { IF m.raised
                        THEN [ error |-> "NotEnough", buildings |-> m.buildings,
                               history |-> history, returned |-> << >>,
                               path |-> "multi", selected |-> s.selected,
                               iters |-> m.iters,
                               shuffled |-> remaining_students ]
                        ELSE [ error |-> "ok", buildings |-> m.buildings,
                               history |-> record_allocation(history,
                                   group_size, m.allocation),
                               returned |-> m.allocation, path |-> "multi",
                               selected |-> s.selected, iters |-> m.iters,
                               shuffled |-> remaining_students ] :
                        m \in multi_floor_allocation(s.buildings,
                                 remaining_students, floors_with_availability,
                                 s.allocation) } :
                 s \in try_single_floor_allocation(bld, remaining_students,
                          floors_with_availability, << >>) } :
                 remaining_students \in Shuffles(roll_numbers) }

(***************************************************************************)
(* Status, reset, save and load.                                           *)
(***************************************************************************)
FloorStatus(rooms) ==
    [ total_rooms |-> Len(rooms),
      available_rooms |-> Len(available_rooms(rooms)),
      available_slots |-> total_available_slots(rooms),
      rooms |-> [ i \in 1..Len(rooms) |->
                    [ room_id |-> room_id(rooms[i]),
                      occupied_by |-> rooms[i].occupied_by,
                      available_slots |-> available_slots(rooms[i]) ] ] ]

\* building_status of one building: floor name -> floor_status
BuildingStatus(floors) ==
    [ floors |-> [ k \in 1..Len(floors) |->
                     << floors[k][1], FloorStatus(floors[k][2]) >> ] ]

RECURSIVE SumSeq(_)
SumSeq(q) == IF q = << >> THEN 0 ELSE Head(q) + SumSeq(Tail(q))

\* a status whose available_slots adds up the floors' available rooms
get_hostel_status_RoomsAsSlots(bld) ==
    LET all == FloorList(bld, 1, 1)
        floors == [ k \in 1..Len(all) |-> RoomsOf(bld, all[k][1]) ]
        total_rooms == SumSeq([ k \in 1..Len(floors) |-> Len(floors[k]) ])
        avail_rooms ==
            SumSeq([ k \in 1..Len(floors) |-> Len(available_rooms(floors[k])) ])
        total_slots == SumSeq([ k \in 1..Len(floors) |-> Len(floors[k]) * 2 ])
    IN  [ total_rooms |-> total_rooms,
          occupied_rooms |-> total_rooms - avail_rooms,
          available_rooms |-> avail_rooms,
          total_slots |-> total_slots,
          occupied_slots |-> total_slots - avail_rooms,
          available_slots |-> avail_rooms,
          buildings |-> BuildingStatus(bld[Len(bld)][2]) ]

get_hostel_status(bld) ==
    LET all == FloorList(bld, 1, 1)
        floors == [ k \in 1..Len(all) |-> RoomsOf(bld, all[k][1]) ]
        total_rooms == SumSeq([ k \in 1..Len(floors) |-> Len(floors[k]) ])
        avail_rooms ==
            SumSeq([ k \in 1..Len(floors) |-> Len(available_rooms(floors[k])) ])
        total_slots == SumSeq([ k \in 1..Len(floors) |-> Len(floors[k]) * 2 ])
        avail_slots == SumSeq([ k \in 1..Len(floors) |-> all[k][2] ])
    IN  [ total_rooms |-> total_rooms,
          occupied_rooms |-> total_rooms - avail_rooms,
          available_rooms |-> avail_rooms,
          total_slots |-> total_slots,
          occupied_slots |-> total_slots - avail_slots,
          available_slots |-> avail_slots,
          \* status['buildings'] = building_status, after the loop: the
          \* building_status of the building visited last
          buildings |-> BuildingStatus(bld[Len(bld)][2]) ]

\* the state reset_allocations leaves
reset_allocations ==
    [ buildings |-> initialize_buildings, history |-> << >> ]

\* the record save_state writes
save_state(bld, history) ==
    [ hostel_status |-> get_hostel_status(bld),
      allocation_history |-> history ]

\* a replay that claims the room whether or not it is empty
ClaimByNumber_Occupied(rooms, room_number, roll_number) ==
    LET hits == { i \in 1..Len(rooms) : rooms[i].number = room_number }
    IN  IF hits = { } THEN rooms
        ELSE LET i == CHOOSE h \in hits : \A g \in hits : h <= g
             IN  [ rooms EXCEPT ![i].occupied_by =
                     Append(Append(@, roll_number), RoommateOf(roll_number)) ]

\* a replay that claims one slot of the room, for the representative
ClaimByNumber_OneSlot(rooms, room_number, roll_number) ==
    LET hits == { i \in 1..Len(rooms) :
                    rooms[i].number = room_number
                    /\ Len(rooms[i].occupied_by) = 0 }
    IN  IF hits = { } THEN rooms
        ELSE LET i == CHOOSE h \in hits : \A g \in hits : h <= g
             IN  [ rooms EXCEPT ![i].occupied_by = Append(@, roll_number) ]

\* a replay in which the entry replayed last takes the room
ClaimByNumber_LastWins(rooms, room_number, roll_number) ==
    LET hits == { i \in 1..Len(rooms) : rooms[i].number = room_number }
    IN  IF hits = { } THEN rooms
        ELSE LET i == CHOOSE h \in hits : \A g \in hits : h <= g
             IN  [ rooms EXCEPT ![i].occupied_by =
                     << roll_number, RoommateOf(roll_number) >> ]

\* the inner for loop of load_state: the first room of the floor with that
\* number and no occupant is claimed
ClaimByNumber(rooms, room_number, roll_number) ==
    LET hits == { i \in 1..Len(rooms) :
                    rooms[i].number = room_number
                    /\ Len(rooms[i].occupied_by) = 0 }
    IN  IF hits = { } THEN rooms
        ELSE LET i == CHOOSE h \in hits : \A g \in hits : h <= g
             IN  [ rooms EXCEPT ![i].occupied_by =
                     Append(Append(@, roll_number), RoommateOf(roll_number)) ]

DictIndex(d, k) == CHOOSE i \in 1..Len(d) : d[i][1] = k

\* the inner replay loop of load_state, over the items of one record's
\* allocation from item j on
RECURSIVE ReplayItems(_, _, _)
ReplayItems(bld, allocation, j) ==
    IF j > Len(allocation) THEN [ error |-> "ok", buildings |-> bld ]
    ELSE LET roll_number == allocation[j][1]
             parts == SplitDash(allocation[j][2])
             building == parts[1]
             room_number == parts[2]
             floor_id == Prefix(building, 2)
             bi == DictIndex(bld, building[1])
             ref == << bi, DictIndex(bld[bi][2], floor_id) >>
         IN  IF \/ Len(parts) # 2                     \* unpacking: ValueError
                \/ Len(building) = 0                       \* IndexError
                \/ building[1] \notin DictKeys(bld)        \* KeyError
                \/ floor_id \notin DictKeys(bld[bi][2])    \* KeyError
             THEN [ error |-> "MalformedState", buildings |-> bld ]
             ELSE ReplayItems(
                    WithRooms(bld, ref,
                        ClaimByNumber(RoomsOf(bld, ref), room_number,
                                      roll_number)),
                    allocation, j + 1)

\* the outer replay loop of load_state, from record r on
RECURSIVE Replay(_, _, _)
Replay(bld, records, r) ==
    IF r > Len(records) THEN [ error |-> "ok", buildings |-> bld ]
    ELSE LET e == ReplayItems(bld, records[r].allocation, 1)
         IN  IF e.error # "ok" THEN e
             ELSE Replay(e.buildings, records, r + 1)

\* the result of load_state on the content of the file
load_state(state) ==
    LET fresh == reset_allocations
        rp == Replay(fresh.buildings, state.allocation_history, 1)
    IN  [ error |-> rp.error, buildings |-> rp.buildings,
          history |-> fresh.history ]

(***************************************************************************)
(* Inputs.                                                                 *)
(***************************************************************************)
R1 == << "R", "1" >>
R2 == << "R", "2" >>

Repeat(x, n) == [ i \in 1..n |-> x ]

\* the calls of allocate_rooms: << group_size, roll_numbers >>; << 0, << >> >>
\* is a call of the class, << 0, << "" >> >> with the empty string as the one
\* roll number is what main() passes for group size 0 (''.split(',') is [''])
Calls ==
    { << 0, << >> >>, << 0, << << >> >> >>, << 1, << R1 >> >>, << 2, << R1, R2 >> >>,
      << 2, << R1, R1 >> >>, << 4, Repeat(R1, 4) >>,
      << MaxGroup, Repeat(R1, MaxGroup) >>,
      << MaxGroup + 1, Repeat(R1, MaxGroup + 1) >>,
      << 1, << R1, R2 >> >>, << MaxGroup + 1, Repeat(R1, MaxGroup) >> }

\* a ledger of one event per floor that fills every room but those of
\* `empty`; the room's identifier serves as the roll number
FloorEvent(rooms, empty) ==
    LET ids == SelectSeq([ i \in 1..Len(rooms) |-> room_id(rooms[i]) ],
                         LAMBDA x : x \notin empty)
    IN  [ group_size |-> Len(ids),
          allocation |-> [ i \in 1..Len(ids) |-> << ids[i], ids[i] >> ] ]

FillExcept(empty) ==
    LET all == FloorList(initialize_buildings, 1, 1)
    IN  [ k \in 1..Len(all) |->
            FloorEvent(RoomsOf(initialize_buildings, all[k][1]), empty) ]

Rid(b, f, n) == << b, f, "-" >> \o Str3(n)

Event(allocation) ==
    [ group_size |-> Len(allocation), allocation |-> allocation ]

\* the ledgers of the files handed to load_state
InputHistories ==
    { FillExcept({ Rid("A", "0", 5), Rid("A", "0", 14), Rid("A", "0", 15),
                   Rid("B", "2", 24) }),
      << Event(<< << R1, Rid("A", "0", 1) >> >>) >>,
      << Event(<< << R1, Rid("A", "0", 1) >> >>),
         Event(<< << R2, Rid("A", "0", 1) >> >>) >>,
      << Event(<< << R2, Rid("B", "1", 7) >>, << R1, Rid("B", "1", 7) >>,
                  << << "R", "3" >>, Rid("B", "1", 8) >> >>) >>,
      << Event(<< << R1, Rid("A", "0", 1) >>, << R2, Rid("C", "1", 1) >> >>) >>,
      << Event(<< << R1, Rid("A", "7", 1) >> >>) >>,
      << Event(<< << R1, Rid("A", "0", 999) >> >>) >>,
      << Event(<< << R1, << "A", "0", "0", "0", "1" >> >> >>) >> }

(***************************************************************************)
(* The system.                                                             *)
(***************************************************************************)
VARIABLES
    buildings,            \* self.buildings
    allocation_history,   \* self.allocation_history
    disk,                 \* the file of the one filename the model uses:
                          \* << >>, or << the record save_state wrote last >>
    op,                   \* the operation that ran last
    request,              \* its arguments
    result,               \* what it raised or returned, and the path it took
    before,               \* buildings and ledger when it started, when it
                          \* was allocate_rooms
    loaded,               \* whether load_state ran since the construction
                          \* or the last reset_allocations
    steps                 \* the number of operations called so far

vars ==
    << buildings, allocation_history, disk, op, request, result, before,
       loaded, steps >>

\* one more operation is called
Called ==
    /\ steps < MaxSteps
    /\ steps' = steps + 1

NoResult ==
    [ error |-> "ok", returned |-> << >>, path |-> "none", selected |-> << >>,
      iters |-> << >>, shuffled |-> << >> ]

Init ==
    /\ buildings = initialize_buildings
    /\ allocation_history = << >>
    /\ disk = << >>
    /\ op = "init"
    /\ request = << >>
    /\ result = NoResult
    /\ before = << >>
    /\ loaded = FALSE
    /\ steps = 0

Allocate ==
    /\ Called
    /\ \E call \in Calls :
       \E o \in allocate_rooms(buildings, allocation_history, call[1],
                               call[2]) :
          /\ buildings' = o.buildings
          /\ allocation_history' = o.history
          /\ op' = "allocate_rooms"
          /\ request' = [ group_size |-> call[1], roll_numbers |-> call[2] ]
          /\ result' = [ error |-> o.error, returned |-> o.returned,
                         path |-> o.path, selected |-> o.selected,
                         iters |-> o.iters, shuffled |-> o.shuffled ]
          /\ before' = [ buildings |-> buildings,
                         history |-> allocation_history ]
          /\ UNCHANGED << disk, loaded >>

GetStatus ==
    /\ Called
    /\ op' = "get_hostel_status"
    /\ request' = << >>
    /\ result' = [ NoResult EXCEPT !.returned = get_hostel_status(buildings) ]
    /\ before' = << >>
    /\ UNCHANGED << buildings, allocation_history, disk, loaded >>

\* a reset that rebuilds the rooms and keeps the ledger
Reset_KeepLedger ==
    /\ Called
    /\ buildings' = reset_allocations.buildings
    /\ op' = "reset_allocations"
    /\ request' = << >>
    /\ result' = NoResult
    /\ before' = << >>
    /\ loaded' = FALSE
    /\ UNCHANGED << disk, allocation_history >>

Reset ==
    /\ Called
    /\ buildings' = reset_allocations.buildings
    /\ allocation_history' = reset_allocations.history
    /\ op' = "reset_allocations"
    /\ request' = << >>
    /\ result' = NoResult
    /\ before' = << >>
    /\ loaded' = FALSE
    /\ UNCHANGED disk

\* save_state rewrites the file
Save ==
    /\ Called
    /\ disk' = << save_state(buildings, allocation_history) >>
    /\ op' = "save_state"
    /\ request' = << >>
    /\ result' = NoResult
    /\ before' = << >>
    /\ UNCHANGED << buildings, allocation_history, loaded >>

Loaded(state) ==
    LET o == load_state(state)
    IN  /\ buildings' = o.buildings
        /\ allocation_history' = o.history
        /\ op' = "load_state"
        /\ request' = state.allocation_history
        /\ result' = [ NoResult EXCEPT !.error = o.error ]
        /\ before' = << >>
        /\ loaded' = TRUE
        /\ UNCHANGED disk

\* load_state of the file save_state wrote
LoadSaved ==
    /\ Called
    /\ disk # << >>
    /\ Loaded(disk[1])

\* load_state of a file that came from elsewhere
LoadInput ==
    /\ Called
    /\ \E h \in InputHistories :
        Loaded([ hostel_status |-> get_hostel_status(initialize_buildings),
                 allocation_history |-> h ])

Next ==
    \/ Allocate
    \/ GetStatus
    \/ Reset
    \/ Save
    \/ LoadSaved
    \/ LoadInput

Spec == Init /\ [][Next]_vars

(***************************************************************************)
(* Properties.                                                             *)
(***************************************************************************)
\* every room object of the hostel, as << floor, index in floor.rooms >>
RoomRefs(bld) ==
    UNION { { << ref, i >> : i \in 1..Len(RoomsOf(bld, ref)) } :
            ref \in FloorRefs(bld) }

RoomAt(bld, rr) == RoomsOf(bld, rr[1])[rr[2]]

Occupants(bld, rr) == RoomAt(bld, rr).occupied_by

EmptyRooms(bld) == { rr \in RoomRefs(bld) : Len(Occupants(bld, rr)) = 0 }

\* hostel-wide sum of the rooms' available slots
HostelSlots(bld) ==
    Cardinality({ p \in RoomRefs(bld) \X (1..Capacity) :
                    p[2] <= Capacity - Len(Occupants(bld, p[1])) })

FloorSlots(bld, ref) ==
    Cardinality({ p \in (1..Len(RoomsOf(bld, ref))) \X (1..Capacity) :
                    p[2] <= Capacity - Len(RoomsOf(bld, ref)[p[1]].occupied_by) })

\* the rooms whose occupant list the last allocate_rooms call changed
Changed == { rr \in RoomRefs(buildings) :
               Occupants(buildings, rr) # Occupants(before.buildings, rr) }

Allocated == op = "allocate_rooms"

Succeeded == Allocated /\ result.error = "ok"

\* a request that meets len(roll_numbers) == group_size and 1 <= size <= 15
ValidRequest ==
    /\ Allocated
    /\ Len(request.roll_numbers) = request.group_size
    /\ request.group_size >= 1
    /\ request.group_size <= 15

Distinct(q) == \A i, j \in 1..Len(q) : i # j => q[i] # q[j]

\* C1: in every reachable state, failed calls included, every room holds 0
\* or exactly 2 occupant entries, and so never more than its capacity of 2.
C1_ZeroOrTwo ==
    \A rr \in RoomRefs(buildings) :
        /\ Len(Occupants(buildings, rr)) \in { 0, 2 }
        /\ Len(Occupants(buildings, rr)) <= 2

\* a load that failed after it had claimed a room
C1_Witness ==
    /\ op = "load_state"
    /\ result.error = "MalformedState"
    /\ \E rr \in RoomRefs(buildings) : Len(Occupants(buildings, rr)) = 2

\* C2: no representative identifier is in the occupant list of two rooms,
\* whatever valid requests were made (repeated or reused identifiers too).
C2_OneRoomPerIdentifier ==
    \A x \in { R1, R2 } :
        Cardinality({ rr \in RoomRefs(buildings) :
            \E i \in 1..Len(Occupants(buildings, rr)) :
                Occupants(buildings, rr)[i] = x }) <= 1

\* C3: a successful allocate_rooms lowers the hostel-wide sum of available
\* slots by exactly 2 * group_size, on the single-floor and the multi-floor
\* path alike.
C3_SlotsDrop ==
    Succeeded =>
        HostelSlots(before.buildings) - HostelSlots(buildings)
            = 2 * request.group_size

\* a success of the multi-floor fallback that placed two rooms
C3_Witness ==
    /\ Succeeded
    /\ result.path = "multi"
    /\ request.group_size = 2
    /\ Len(result.iters) = 2

\* C4: a call whose group_size differs from the number of identifiers, or
\* exceeds 15, fails with InvalidRequest and leaves rooms and ledger as
\* they were.
C4_RejectedUnchanged ==
    ( /\ Allocated
      /\ \/ Len(request.roll_numbers) # request.group_size
         \/ request.group_size > 15 )
    => /\ result.error = "InvalidRequest"
       /\ buildings = before.buildings
       /\ allocation_history = before.history

\* allocate(16, [16 identifiers]) rejected in a hostel that has occupants
C4_Witness ==
    /\ Allocated
    /\ request.group_size = 16
    /\ Len(request.roll_numbers) = 16
    /\ result.error = "InvalidRequest"
    /\ EmptyRooms(buildings) # RoomRefs(buildings)
    /\ allocation_history # << >>

\* C5: allocate_rooms(0, []) fails with InvalidRequest, changes no room and
\* appends no event.
C5_ZeroRejected ==
    ( Allocated /\ request.group_size = 0 /\ request.roll_numbers = << >> )
    => /\ result.error = "InvalidRequest"
       /\ buildings = before.buildings
       /\ allocation_history = before.history

\* the floors that had at least 2n available slots when the call started
Qualifying ==
    { ref \in FloorRefs(before.buildings) :
        FloorSlots(before.buildings, ref) >= 2 * request.group_size }

\* C6: for a valid request of n rooms, when some floor has at least 2n
\* available slots the call places all n representatives on one floor, and
\* that floor had at least 2n available slots; rooms on two floors are
\* claimed only when no floor had.
C6_SingleFloorPreference ==
    ValidRequest =>
        /\ Qualifying # { } =>
             /\ Succeeded
             /\ \E ref \in Qualifying :
                  /\ \A rr \in Changed : rr[1] = ref
                  /\ Cardinality(Changed) = request.group_size
                  /\ \A i \in 1..Len(request.roll_numbers) :
                       \E rr \in Changed :
                          Occupants(buildings, rr)[1] = request.roll_numbers[i]
        /\ (\E a, b \in Changed : a[1] # b[1]) => Qualifying = { }

\* two rooms placed when exactly one floor had four slots left
C6_Witness ==
    /\ ValidRequest
    /\ request.group_size = 2
    /\ Cardinality(Qualifying) = 1
    /\ Cardinality(EmptyRooms(before.buildings)) > 3
    /\ Cardinality(Changed) = 2

CapacityError == result.error \in { "NoRooms", "NotEnough" }

\* C7: a valid request of n rooms fails with a capacity error exactly when
\* fewer than n rooms are empty hostel-wide, and succeeds otherwise,
\* whichever floors are picked.
C7_FailsIffTooFewRooms ==
    ValidRequest =>
        /\ CapacityError
             <=> Cardinality(EmptyRooms(before.buildings)) < request.group_size
        /\ ~CapacityError => result.error = "ok"

\* a request that failed though some rooms were empty
C7_Witness ==
    /\ ValidRequest
    /\ result.error = "NotEnough"
    /\ Cardinality(EmptyRooms(before.buildings)) > 1

\* the rooms of a floor that the last call claimed
ClaimedOn(ref) == { rr \in Changed : rr[1] = ref }

\* C8: when the multi-floor fallback raises, the rooms claimed in its
\* earlier iterations stay occupied by the identifiers placed in them, and
\* get_hostel_status shows the reduced availability.
C8_PartialCommitStays ==
    ( Allocated /\ result.error = "NotEnough" ) =>
        /\ \A k \in 1..Len(result.iters) :
             LET it == result.iters[k]
             IN  /\ Cardinality(ClaimedOn(it.floor)) = it.placed
                 /\ \A rr \in ClaimedOn(it.floor) :
                      /\ Occupants(before.buildings, rr) = << >>
                      /\ \E j \in 1..it.placed :
                           Occupants(buildings, rr) =
                             << it.students[j], RoommateOf(it.students[j]) >>
        /\ get_hostel_status(buildings).available_slots
             = HostelSlots(before.buildings)
               - 2 * SumSeq([ k \in 1..Len(result.iters) |->
                                result.iters[k].placed ])

\* a fallback that raised after it had claimed rooms on two floors
C8_Witness ==
    /\ Allocated
    /\ result.error = "NotEnough"
    /\ Len(result.iters) = 2
    /\ \A k \in 1..2 : result.iters[k].placed >= 1
    /\ \E rr \in Changed : Len(Occupants(buildings, rr)) = 2

\* the room a room identifier of the form {building}{floor}-{number} names
RoomNamed(bld, rid) ==
    { rr \in RoomRefs(bld) :
        /\ Len(rid) > 3
        /\ rid[1] = RoomAt(bld, rr).building
        /\ rid[2] = RoomAt(bld, rr).floor
        /\ rid[3] = "-"
        /\ SubSeq(rid, 4, Len(rid)) = RoomAt(bld, rr).number }

\* C9: a successful call with n pairwise distinct identifiers returns a
\* mapping whose keys are those identifiers and whose values are n distinct
\* room identifiers of the layout; each of these rooms was empty before and
\* holds [id, id + "_roommate"] after.
C9_Mapping ==
    ( Succeeded /\ Distinct(request.roll_numbers) ) =>
        LET m == result.returned
        IN  /\ Len(m) = request.group_size
            /\ Distinct([ i \in 1..Len(m) |-> m[i][1] ])
            /\ DictKeys(m) = { request.roll_numbers[i] :
                               i \in 1..Len(request.roll_numbers) }
            /\ Distinct([ i \in 1..Len(m) |-> m[i][2] ])
            /\ \A i \in 1..Len(m) :
                 /\ Cardinality(RoomNamed(initialize_buildings, m[i][2])) = 1
                 /\ \A rr \in RoomNamed(buildings, m[i][2]) :
                      /\ Occupants(before.buildings, rr) = << >>
                      /\ Occupants(buildings, rr) =
                           << m[i][1],
                              m[i][1] \o << "_", "r", "o", "o", "m", "m",
                                            "a", "t", "e" >> >>

\* two distinct identifiers placed
C9_Witness ==
    /\ Succeeded
    /\ request.roll_numbers = << R1, R2 >>
    /\ Len(result.returned) = 2

\* C10: a successful allocate_rooms appends one event, with the requested
\* group size and the returned mapping, after the earlier events, which it
\* leaves as they were; the ledger gets shorter on reset_allocations and
\* load_state only.
C10_AppendOnly ==
    [][ /\ ( op' = "allocate_rooms" /\ result'.error = "ok" ) =>
             allocation_history' =
                 Append(allocation_history,
                        [ group_size |-> request'.group_size,
                          allocation |-> result'.returned ])
        /\ Len(allocation_history') < Len(allocation_history) =>
             op' \in { "reset_allocations", "load_state" } ]_vars

\* an event appended to a ledger that held one
C10_Witness ==
    /\ Succeeded
    /\ Len(allocation_history) = 2
    /\ Len(before.history) = 1

\* C11: a room that has occupants keeps exactly that occupant list through
\* every allocate_rooms (successful or failed), get_hostel_status and
\* save_state; only reset_allocations and load_state, which resets first,
\* release a claimed slot.
C11_NoRelease ==
    [][ op' \in { "allocate_rooms", "get_hostel_status", "save_state" } =>
          \A rr \in RoomRefs(buildings) :
              Occupants(buildings, rr) # << >> =>
                  Occupants(buildings', rr) = Occupants(buildings, rr) ]_vars

\* a fallback that claimed rooms and raised in a hostel that had occupants
C11_Witness ==
    /\ Allocated
    /\ result.error = "NotEnough"
    /\ Changed # { }
    /\ \E rr \in RoomRefs(buildings) :
          /\ Occupants(before.buildings, rr) # << >>
          /\ Occupants(buildings, rr) = Occupants(before.buildings, rr)

\* C12: when a state reached from the fresh system by allocate_rooms calls
\* alone (successful or failing) is saved and the file is loaded, every room
\* has the occupant list it had when the file was written.
C12_RoundTripOccupancy ==
    [][ ( /\ op = "save_state"
          /\ ~loaded
          /\ op' = "load_state"
          /\ request' = disk[1].allocation_history ) =>
          \A rr \in RoomRefs(buildings) :
              Occupants(buildings', rr) = Occupants(buildings, rr) ]_vars

\* C13: after load_state of the file save_state wrote, the ledger holds the
\* events of the saved ledger, in the same order (group size and mapping);
\* stated for the ledgers whose events come from requests of 1 to 15 rooms.
C13_RoundTripLedger ==
    ( /\ op = "load_state"
      /\ disk # << >>
      /\ request = disk[1].allocation_history
      /\ \A k \in 1..Len(disk[1].allocation_history) :
            disk[1].allocation_history[k].group_size \in 1..MaxGroup )
    => allocation_history = disk[1].allocation_history

\* the floors of a building, as the set of << name, number of rooms >>
FloorSizes(bld, b) ==
    { << bld[ref[1]][2][ref[2]][1], Len(RoomsOf(bld, ref)) >> :
        ref \in { r \in FloorRefs(bld) : bld[r[1]][1] = b } }

\* C14: reset_allocations can run in every reachable state, and the state it
\* leaves is the initial one: Building A with 4 floors of 15 rooms, Building
\* B with 2 floors of 24 rooms, all 108 rooms empty, the ledger empty; so a
\* second reset leaves the snapshot the first one left.
C14_ResetIsInitial ==
    /\ steps < MaxSteps => ENABLED Reset
    /\ op = "reset_allocations" =>
         /\ result.error = "ok"
         /\ allocation_history = << >>
         /\ DictKeys(buildings) = { "A", "B" }
         /\ FloorSizes(buildings, "A") =
              { << << "A", "0" >>, 15 >>, << << "A", "1" >>, 15 >>,
                << << "A", "2" >>, 15 >>, << << "A", "3" >>, 15 >> }
         /\ FloorSizes(buildings, "B") =
              { << << "B", "1" >>, 24 >>, << << "B", "2" >>, 24 >> }
         /\ Cardinality(RoomRefs(buildings)) = 108
         /\ EmptyRooms(buildings) = RoomRefs(buildings)
         /\ buildings = initialize_buildings
         /\ reset_allocations.buildings = buildings
         /\ reset_allocations.history = allocation_history

\* a reset after a ledger with an event had been saved
C14_Witness ==
    /\ op = "reset_allocations"
    /\ disk # << >>
    /\ disk[1].allocation_history # << >>
    /\ disk[1].hostel_status.occupied_rooms > 0

\* C15: a load_state that fails on an entry naming a building, floor or
\* room outside the layout leaves every room empty and the ledger empty,
\* however many valid entries come before that entry.
C15_FailedLoadIsEmpty ==
    ( op = "load_state" /\ result.error = "MalformedState" ) =>
        /\ EmptyRooms(buildings) = RoomRefs(buildings)
        /\ allocation_history = << >>

\* the entries << roll number, room identifier >> of a ledger, in replay order
LedgerEntries(h) == Flatten([ k \in 1..Len(h) |-> h[k].allocation ])

\* C16: load_state fails with MalformedState whenever an entry of the
\* replayed ledger names a room identifier that is not one of the layout's:
\* unknown building, unknown floor, or a room number its floor does not have.
C16_UnknownRoomFails ==
    ( /\ op = "load_state"
      /\ \E j \in 1..Len(LedgerEntries(request)) :
            RoomNamed(initialize_buildings, LedgerEntries(request)[j][2]) = { } )
    => result.error = "MalformedState"

\* the entries of a ledger that name the room, in replay order
EntriesFor(h, room) ==
    SelectSeq(LedgerEntries(h), LAMBDA e : e[2] = room_id(room))

\* C17: load_state of a ledger whose entries all name rooms of the layout
\* completes, and when a load completes every room named by some entry holds
\* [id, id_roommate] of the first entry, in ledger order, that names it;
\* the later entries for the room change nothing, and a room no entry names
\* is empty.
C17_FirstEntryWins ==
    op = "load_state" =>
        /\ ( \A j \in 1..Len(LedgerEntries(request)) :
               RoomNamed(initialize_buildings, LedgerEntries(request)[j][2])
                   # { } )
           => result.error = "ok"
        /\ result.error = "ok" =>
             \A rr \in RoomRefs(buildings) :
                LET hits == EntriesFor(request, RoomAt(buildings, rr))
                IN  Occupants(buildings, rr) =
                      IF hits = << >> THEN << >>
                      ELSE << hits[1][1],
                              hits[1][1] \o << "_", "r", "o", "o", "m", "m",
                                               "a", "t", "e" >> >>

\* a completed load in which two entries of one event named room B1-007
C17_Witness ==
    /\ op = "load_state"
    /\ result.error = "ok"
    /\ \E rr \in RoomRefs(buildings) :
          /\ Len(EntriesFor(request, RoomAt(buildings, rr))) = 2
          /\ Len(request) = 1
          /\ Occupants(buildings, rr)[1] = R2

\* C18: in every reachable state the counts of get_hostel_status agree with
\* the rooms: total_rooms = 108, total_slots = 216, occupied + available
\* rooms = total_rooms, occupied + available slots = total_slots, and
\* occupied_slots = 2 * (rooms that have occupants); after a successful
\* allocate_rooms of 4 rooms on the fresh system occupied_slots = 8.
C18_StatusCounts ==
    LET st == get_hostel_status(buildings)
        occupied == RoomRefs(buildings) \ EmptyRooms(buildings)
    IN  /\ st.total_rooms = 108
        /\ st.total_slots = 216
        /\ st.occupied_rooms + st.available_rooms = st.total_rooms
        /\ st.occupied_slots + st.available_slots = st.total_slots
        /\ st.occupied_slots = 2 * Cardinality(occupied)
        /\ op = "get_hostel_status" =>
             result.returned.occupied_slots = 2 * Cardinality(occupied)
        /\ ( /\ Succeeded
             /\ request.group_size = 4
             /\ before.history = << >>
             /\ EmptyRooms(before.buildings) = RoomRefs(before.buildings) )
           => st.occupied_slots = 8

\* the status asked for after 4 rooms were allocated on the fresh system
C18_Witness ==
    /\ op = "get_hostel_status"
    /\ ~loaded
    /\ Len(allocation_history) = 1
    /\ allocation_history[1].group_size = 4
    /\ result.returned.occupied_slots = 8

\* C19: the breakdown of the snapshot get_hostel_status returns has, for
\* every room of Building A and of Building B, an entry under one of the
\* floors with the room's identifier and its current occupant list.
C19_BreakdownCoversAll ==
    op = "get_hostel_status" =>
        \A rr \in RoomRefs(buildings) :
            \E k \in 1..Len(result.returned.buildings.floors) :
                LET floor_status == result.returned.buildings.floors[k][2]
                IN  \E i \in 1..Len(floor_status.rooms) :
                       /\ floor_status.rooms[i].room_id =
                            room_id(RoomAt(buildings, rr))
                       /\ floor_status.rooms[i].occupied_by =
                            Occupants(buildings, rr)

\* the numbers of the rooms of a floor that are vacant
VacantNumbers(bld, ref) ==
    { ParseInt(RoomsOf(bld, ref)[i].number) :
        i \in { j \in 1..Len(RoomsOf(bld, ref)) :
                   Len(RoomsOf(bld, ref)[j].occupied_by) = 0 } }

\* whether the floor has n vacant rooms numbered lo, lo + 1, ..., lo + n - 1
HasRun(bld, ref, n) ==
    \E lo \in VacantNumbers(bld, ref) :
        \A d \in 0..(n - 1) : lo + d \in VacantNumbers(bld, ref)

\* C20: when a valid request of n rooms is placed on one floor and that
\* floor had, when the call started, n vacant rooms with consecutive
\* numbers, the n rooms the call claims have consecutive numbers.
C20_ContiguousRooms ==
    ( /\ ValidRequest
      /\ Succeeded
      /\ \E ref \in FloorRefs(buildings) :
            /\ \A rr \in Changed : rr[1] = ref
            /\ HasRun(before.buildings, ref, request.group_size) )
    => LET nums == { ParseInt(RoomAt(buildings, rr).number) : rr \in Changed }
       IN  \E lo \in nums :
              nums = lo..(lo + request.group_size - 1)

\* the last call ran the multi-floor fallback
FellBack == Allocated /\ result.path = "multi"

\* the number of identifiers the first k iterations of the fallback took
Taken(k) == SumSeq([ j \in 1..k |-> Len(result.iters[j].students) ])

\* C21: the loop of the multi-floor fallback ends: every floor it picks
\* supplies available_slots // 2 >= 1 rooms, every iteration takes and places
\* at least one identifier, so the queue gets shorter each time and the call
\* is over (returned, or raised CapacityExhausted) after at most group_size
\* iterations.
C21_FallbackTerminates ==
    FellBack =>
        /\ result.error \in { "ok", "NotEnough" }
        /\ Len(result.iters) <= request.group_size
        /\ \A k \in 1..Len(result.iters) :
              /\ result.iters[k].slots \div 2 >= 1
              /\ Len(result.iters[k].students) >= 1
              /\ result.iters[k].placed >= 1
              /\ request.group_size - Taken(k)
                   < request.group_size - Taken(k - 1)
        /\ result.error = "ok" =>
              Taken(Len(result.iters)) = request.group_size
        /\ result.error = "NotEnough" =>
              Taken(Len(result.iters)) < request.group_size

\* a fallback that placed 4 identifiers in two iterations and returned
C21_Witness ==
    /\ FellBack
    /\ result.error = "ok"
    /\ request.group_size = 4
    /\ Len(result.iters) = 2

\* C22: iteration k of the fallback takes the next
\* min(identifiers left, available_slots // 2 of the floor it picked)
\* identifiers off the front of the shuffled queue and places exactly those,
\* each in a room of that floor that was empty, so no identifier leaves the
\* queue without a room; a floor picked before the last iteration is left
\* with no available slot.
C22_IterationPlacesFront ==
    FellBack =>
        \A k \in 1..Len(result.iters) :
            LET it == result.iters[k]
                left == request.group_size - Taken(k - 1)
                want == IF left < it.slots \div 2 THEN left
                        ELSE it.slots \div 2
            IN  /\ it.students =
                     SubSeq(result.shuffled, Taken(k - 1) + 1,
                            Taken(k - 1) + want)
                /\ it.placed = want
                /\ Cardinality(ClaimedOn(it.floor)) = want
                /\ \A j \in 1..want :
                     \E rr \in ClaimedOn(it.floor) :
                        /\ Occupants(before.buildings, rr) = << >>
                        /\ Occupants(buildings, rr) =
                             << it.students[j],
                                it.students[j] \o << "_", "r", "o", "o", "m",
                                                     "m", "a", "t", "e" >> >>
                /\ k < Len(result.iters) =>
                     FloorSlots(buildings, it.floor) = 0

\* two distinct identifiers placed by two iterations, one room each
C22_Witness ==
    /\ FellBack
    /\ result.error = "ok"
    /\ request.roll_numbers = << R1, R2 >>
    /\ Len(result.iters) = 2
    /\ result.iters[1].students = << R2 >>

\* the placements of the last call, as << floor, identifiers in the order
\* they were handed to the walk >>: the selected floor with the shuffled
\* queue on the single-floor path, one per iteration on the fallback
Placements ==
    IF ~Allocated THEN << >>
    ELSE IF result.path = "single"
    THEN << << result.selected[1], result.shuffled >> >>
    ELSE [ k \in 1..Len(result.iters) |->
             << result.iters[k].floor, result.iters[k].students >> ]

\* the number of rooms of the floor that are vacant and numbered below num
VacantBelow(bld, ref, num) ==
    Cardinality({ v \in VacantNumbers(bld, ref) : v < num })

\* C23: when k identifiers are placed on a floor, the rooms claimed are the
\* k lowest-numbered rooms of the floor that were empty, and the i-th
\* identifier handed to the walk holds the i-th lowest of them.
C23_LowestRoomsInOrder ==
    \A p \in 1..Len(Placements) :
        LET ref == Placements[p][1]
            q == Placements[p][2]
        IN  /\ Cardinality(ClaimedOn(ref)) = Len(q)
            /\ \A i \in 1..Len(q) :
                 \E rr \in ClaimedOn(ref) :
                    /\ Occupants(buildings, rr)[1] = q[i]
                    /\ VacantBelow(before.buildings, ref,
                                   ParseInt(RoomAt(buildings, rr).number))
                         = i - 1

\* R2 then R1 placed on a floor whose lowest-numbered room was occupied
C23_Witness ==
    /\ Succeeded
    /\ result.path = "single"
    /\ result.shuffled = << R2, R1 >>
    /\ Len(RoomsOf(before.buildings, result.selected[1])[1].occupied_by) = 2
    /\ Cardinality(ClaimedOn(result.selected[1])) = 2

\* C24: allocate_rooms, successful or failed, leaves every room that had
\* occupants when the call started with the same occupant list, and on the
\* single-floor path changes no room of a floor other than the selected one.
C24_WritesEmptyRoomsOnly ==
    Allocated =>
        /\ \A rr \in RoomRefs(buildings) :
              Occupants(before.buildings, rr) # << >> =>
                  Occupants(buildings, rr) = Occupants(before.buildings, rr)
        /\ result.path = "single" =>
              \A rr \in Changed : rr[1] = result.selected[1]

\* a single-floor placement on a floor that had occupants, while another
\* floor had occupants too
C24_Witness ==
    /\ Succeeded
    /\ result.path = "single"
    /\ Changed # { }
    /\ \E a, b \in RoomRefs(buildings) :
          /\ a[1] = result.selected[1]
          /\ b[1] # result.selected[1]
          /\ Occupants(before.buildings, a) # << >>
          /\ Occupants(before.buildings, b) # << >>

\* C25: a call that passes the checks goes to the multi-floor fallback only
\* when no floor has 2n available slots, and then the single-floor attempt
\* has selected no floor and claimed no room: every room the call changed
\* was claimed by an iteration of the fallback.  When a floor qualifies,
\* the attempt selects a qualifying floor and places all n identifiers on it.
C25_NoPartialSingleFloor ==
    ( Allocated /\ result.path # "none" ) =>
        /\ Qualifying # { } => result.path = "single"
        /\ result.path = "single" =>
              /\ result.selected[1] \in Qualifying
              /\ result.error = "ok"
              /\ Cardinality(ClaimedOn(result.selected[1]))
                   = request.group_size
        /\ result.path = "multi" =>
              /\ Qualifying = { }
              /\ result.selected = << >>
              /\ \A rr \in Changed :
                    \E k \in 1..Len(result.iters) :
                        result.iters[k].floor = rr[1]
              /\ Cardinality(Changed) =
                    SumSeq([ k \in 1..Len(result.iters) |->
                               result.iters[k].placed ])

\* a fallback of 4 rooms that began on the floor with one room left
C25_Witness ==
    /\ FellBack
    /\ request.group_size = 4
    /\ Cardinality(Changed) = 4
    /\ result.iters[1].placed = 1

\* C26: an allocate_rooms call that fails (InvalidRequest, hostel full, or
\* CapacityExhausted raised in the fallback) leaves the ledger as it was,
\* also when it has claimed rooms.
C26_FailureAppendsNothing ==
    ( Allocated /\ result.error # "ok" ) =>
        allocation_history = before.history

\* a fallback that claimed rooms and raised, with one event in the ledger
C26_Witness ==
    /\ Allocated
    /\ result.error = "NotEnough"
    /\ Changed # { }
    /\ Len(before.history) = 1
    /\ before.history[1].group_size >= 1
    /\ Len(allocation_history) = 1

\* C27: when the fallback raises CapacityExhausted every room of the hostel
\* is occupied afterwards, and while every room is occupied an allocate_rooms
\* request for one room or more fails and changes nothing.
C27_ExhaustedMeansFull ==
    [][ /\ ( op' = "allocate_rooms" /\ result'.error = "NotEnough" ) =>
             /\ HostelSlots(buildings') = 0
             /\ EmptyRooms(buildings') = { }
        /\ ( /\ EmptyRooms(buildings) = { }
             /\ op' = "allocate_rooms"
             /\ request'.group_size >= 1 ) =>
             /\ result'.error # "ok"
             /\ buildings' = buildings ]_vars

\* a request for one room refused after a fallback had filled the hostel
C27_Witness ==
    /\ Allocated
    /\ result.error = "NoRooms"
    /\ request.group_size = 1
    /\ Len(request.roll_numbers) = 1
    /\ EmptyRooms(before.buildings) = { }
    /\ before.history = << >>

====
